---- MODULE Spec2Model ----
(***************************************************************************)
(* Model of lib/librte_eal/common/eal_common_trace_utils.c: the session    *)
(* identity and persistence helpers of the EAL trace library.              *)
(*                                                                         *)
(* C strings are sequences of one-character strings; NUL is the empty      *)
(* string.  A char buffer of n bytes is a sequence of n characters, C      *)
(* index i being element i + 1.                                            *)
(***************************************************************************)
EXTENDS Integers, Sequences, FiniteSets, TLC

VARIABLES
    \* the trace point registry (trace_list_head_get())
    tp_list,            \* the names of the registered trace points, in order
    tp_runs,            \* the handles of the registered trace points, as
                        \* runs of n consecutive points with equal handles
    nb_trace_points,    \* trace->nb_trace_points
    \* trace_has_duplicate_entry()
    dup_called,         \* it has been called
    dup_ret,            \* what it returned
    dup_name,           \* the name it passed to trace_err(), <<>> if none
    rte_errno,
    \* trace_uuid_generate()
    uuid,               \* trace->uuid, 16 bytes
    uuid_fresh,         \* generated since the registry last changed
    \* struct trace (the fields this file reads or writes)
    dir,                \* trace->dir, the session directory buffer
    dir_offset,         \* trace->dir_offset
    errno,              \* the C library's errno
    dirs,               \* the directories mkdir() has created
    dir_op,             \* the last directory operation called, and
    dir_rc,             \* what it returned
    dir_ops,            \* directory operations called so far
    dir_hi,             \* highest index of trace->dir written so far, or -1
    heap_over,          \* a write went past the end of a calloc()ed buffer
    dir_log,            \* the calls the last directory operation made
    \* trace->args and the heap blocks it points to
    args,               \* trace->args.args: per slot a heap block, 0 for NULL
    nb_args,            \* trace->args.nb_args
    heap,               \* the blocks calloc() returned: contents, times freed
    args_op,            \* the last operation on the store, and
    args_rc,            \* what it returned
    args_ops,           \* operations on the store so far
    \* trace_epoch_time_save()
    tsc,                \* the two rte_get_tsc_cycles() reads of the last call
    epoch_sec,          \* trace->epoch_sec
    epoch_nsec,         \* trace->epoch_nsec
    uptime_ticks,       \* trace->uptime_ticks
    epoch_rc,           \* what the last call returned
    epoch_calls,        \* calls so far
    nb_trace_mem_list,  \* trace->nb_trace_mem_list
    offset,             \* trace->lcore_meta[i].mem->offset, per region
    lock,               \* trace->lock: 0 free, t when taken by thread t
    \* the file system under the session directory
    fs,                 \* file name -> [len, wr]
    \* rte_trace_save(), per calling thread
    pc,                 \* position of the thread inside rte_trace_save()
    rc,                 \* its local rc
    count,              \* its local count
    saves,              \* calls the thread has started
    \* history of the running call, per thread
    acq,                \* the call has taken the lock
    offAtLock,          \* the regions' offsets when the call took the lock
    rdoff,              \* hdr->offset as the call's last trace_file_sz() read it
    log                 \* the files the call worked on, in order

saveVars == <<nb_trace_mem_list, offset, lock, fs, pc, rc, count, saves,
              acq, offAtLock, rdoff, log>>
dirVars == <<dir, dir_offset, errno, dirs, dir_op, dir_rc, dir_ops, dir_hi,
             heap_over, dir_log>>
argVars == <<args, nb_args, heap, args_op, args_rc, args_ops>>
epochVars == <<tsc, epoch_sec, epoch_nsec, uptime_ticks, epoch_rc, epoch_calls>>
otherVars == <<argVars, epochVars>>
regVars == <<tp_list, tp_runs, nb_trace_points, dup_called, dup_ret, dup_name,
             rte_errno, uuid, uuid_fresh>>
vars == <<regVars, dirVars, saveVars, otherVars>>

----------------------------------------------------------------------------
(* Bounds of the model *)

\* sizeof(trace->dir) and the size of the file_name arrays, scaled down
PATH_MAX == 64
\* threads calling rte_trace_save()
NumThreads == 2
\* registered worker regions
MaxRegions == 2
\* highest write offset a worker reaches
MaxOffset == 1
\* rte_trace_save() calls per thread
MaxSaves == 1
\* bytes rte_trace_metadata_dump() writes
MetaSize == 1
\* capacity of trace->args.args, scaled down
TRACE_MAX_ARGS == 3

----------------------------------------------------------------------------
(* errno values and error returns of the environment *)

EACCES == 13
EEXIST == 17

\* errno after a failed fopen(), after a failed fclose()
OpenErrnos == {EACCES}
CloseErrnos == {28}
\* error returns of rte_trace_metadata_dump()
DumpErrors == {-9}

----------------------------------------------------------------------------
(* C strings *)

NUL == ""

Min(a, b) == IF a < b THEN a ELSE b
Max(a, b) == IF a > b THEN a ELSE b

Rep(c, n) == [i \in 1..n |-> c]

\* strlen() of what a buffer holds
StrLen(buf) ==
    IF \E i \in 1..Len(buf) : buf[i] = NUL
    THEN (CHOOSE i \in 1..Len(buf) :
              buf[i] = NUL /\ \A j \in 1..(i - 1) : buf[j] # NUL) - 1
    ELSE Len(buf)

\* the string a buffer holds
CStr(buf) == SubSeq(buf, 1, StrLen(buf))

Digit == <<"0", "1", "2", "3", "4", "5", "6", "7", "8", "9">>

\* "%d" of a number >= 0
RECURSIVE Dec(_)
Dec(n) == IF n < 10 THEN <<Digit[n + 1]>>
          ELSE Dec(n \div 10) \o <<Digit[(n % 10) + 1]>>

\* what snprintf(buf, size, ...) leaves in buf when the formatted text is s
Snprintf(size, s) == SubSeq(s, 1, Min(Len(s), size - 1))

----------------------------------------------------------------------------
(* The parts of the state an operation group leaves alone: their values
   before anything of the group ran *)

RegIdle ==
    /\ tp_list = <<>>
    /\ tp_runs = <<>>
    /\ nb_trace_points = 0
    /\ dup_called = FALSE
    /\ dup_ret = FALSE
    /\ dup_name = <<>>
    /\ rte_errno = 0
    /\ uuid = Rep(0, 16)
    /\ uuid_fresh = FALSE

SaveIdle ==
    /\ nb_trace_mem_list = 0
    /\ offset = <<>>
    /\ lock = 0
    /\ fs = <<>>
    /\ pc = [t \in 1..NumThreads |-> "idle"]
    /\ rc = [t \in 1..NumThreads |-> 0]
    /\ count = [t \in 1..NumThreads |-> 0]
    /\ saves = [t \in 1..NumThreads |-> 0]
    /\ acq = [t \in 1..NumThreads |-> FALSE]
    /\ offAtLock = [t \in 1..NumThreads |-> <<>>]
    /\ rdoff = [t \in 1..NumThreads |-> 0]
    /\ log = [t \in 1..NumThreads |-> <<>>]

\* the argument store and the epoch fields of a zeroed struct trace
ArgsIdle ==
    /\ args = [i \in 0..(TRACE_MAX_ARGS - 1) |-> 0]
    /\ nb_args = 0
    /\ heap = <<>>
    /\ args_op = <<"none", <<>>>>
    /\ args_rc = 0
    /\ args_ops = 0

EpochIdle ==
    /\ tsc = <<Rep(0, 8), Rep(0, 8)>>
    /\ epoch_sec = 0
    /\ epoch_nsec = 0
    /\ uptime_ticks = Rep(0, 8)
    /\ epoch_rc = 0
    /\ epoch_calls = 0

OtherIdle == ArgsIdle /\ EpochIdle

DirIdle ==
    /\ dir = Rep(NUL, PATH_MAX)
    /\ dir_offset = 0
    /\ errno = 0
    /\ dirs = {}
    /\ dir_op = "none"
    /\ dir_rc = 0
    /\ dir_ops = 0
    /\ dir_hi = 0 - 1
    /\ heap_over = FALSE
    /\ dir_log = <<>>

----------------------------------------------------------------------------
(* Files *)

\* sizeof(struct __rte_trace_stream_header)
STREAM_HDR_SZ == 56

\* the log entry of the metadata file (regions are logged by their index)
META == 0 - 1

Threads == 1..NumThreads

Slash == <<"/">>
MetadataStr == <<"m", "e", "t", "a", "d", "a", "t", "a">>
ChannelStr == <<"c", "h", "a", "n", "n", "e", "l", "0", "_">>

\* snprintf(file_name, PATH_MAX, "%s/metadata", trace->dir)
MetaFileName(d) == Snprintf(PATH_MAX, d \o Slash \o MetadataStr)

\* snprintf(file_name, PATH_MAX, "%s/channel0_%d", trace->dir, cnt)
MemFileName(d, cnt) == Snprintf(PATH_MAX, d \o Slash \o ChannelStr \o Dec(cnt))

\* fopen(name, "w"): the file is created, or cut to length 0
Fopen(f, name) == (name :> [len |-> 0, wr |-> {}]) @@ f

\* n bytes of `who` written from the start of the stream
Fwrite(f, name, n, who) ==
    [f EXCEPT ![name] = [len |-> Max(@.len, n),
                         wr |-> IF n > 0 THEN @.wr \cup {who} ELSE @.wr]]

\* the lengths a failed write of n bytes leaves behind: nothing, or all
\* but the last byte
ShortLens(n) == {0, n - 1}

\* a failed fclose() may lose what was buffered
Flost(f, name) == [f EXCEPT ![name].len = 0]

\* mutant: the size of the stream header alone
trace_file_sz_HeaderOnly(hdr_offset) == STREAM_HDR_SZ

\* sizeof(struct __rte_trace_stream_header) + hdr->offset
trace_file_sz(hdr_offset) == STREAM_HDR_SZ + hdr_offset

\* a log entry of the running call: the file it worked on (META or the
\* region's index), whether every step on it succeeded, and the offset read
Entry(src, ok, off) == [src |-> src, ok |-> ok, off |-> off]

\* if (fclose(f)) rc = -errno; e is 0 when fclose() succeeds
CloseRc(prev, e) == IF e # 0 THEN -e ELSE prev

----------------------------------------------------------------------------
(* rte_trace_save(), one step per library call *)

\* for (count = 0; count < trace->nb_trace_mem_list; count++)
LoopHead(c) == IF c < nb_trace_mem_list THEN "mem_open" ELSE "unlock"

\* mutant: no test of the region count
EnterNext_NoTest(n) == "meta_open"

\* if (trace->nb_trace_mem_list == 0) return rc;
EnterNext(n) == IF n = 0 THEN "ret" ELSE "meta_open"

\* rte_trace_save() is called
SaveEnter(t) ==
    /\ pc[t] = "idle"
    /\ saves[t] < MaxSaves
    /\ saves' = [saves EXCEPT ![t] = @ + 1]
    /\ rc' = [rc EXCEPT ![t] = 0]
    /\ count' = [count EXCEPT ![t] = 0]
    /\ acq' = [acq EXCEPT ![t] = FALSE]
    /\ log' = [log EXCEPT ![t] = <<>>]
    /\ pc' = [pc EXCEPT ![t] = EnterNext(nb_trace_mem_list)]
    /\ UNCHANGED <<regVars, dirVars, otherVars, nb_trace_mem_list, offset, lock, fs, offAtLock,
                   rdoff>>

\* mutant: the result of trace_meta_save() is ignored
AfterMeta_Ignored(r) == "lock"

\* rc = trace_meta_save(trace); if (rc) return rc;
AfterMeta(r) == IF r # 0 THEN "ret" ELSE "lock"

\* trace_meta_save(): f = fopen(file_name, "w") fails; return -errno
MetaOpenFail(t) ==
    /\ pc[t] = "meta_open"
    /\ \E e \in OpenErrnos : rc' = [rc EXCEPT ![t] = -e]
    /\ log' = [log EXCEPT ![t] = Append(@, Entry(META, FALSE, 0))]
    /\ pc' = [pc EXCEPT ![t] = AfterMeta(rc'[t])]
    /\ UNCHANGED <<regVars, dirVars, otherVars, nb_trace_mem_list, offset, lock, fs, count,
                   saves, acq, offAtLock, rdoff>>

\* trace_meta_save(): f = fopen(file_name, "w")
MetaOpen(t) ==
    /\ pc[t] = "meta_open"
    /\ fs' = Fopen(fs, MetaFileName(CStr(dir)))
    /\ pc' = [pc EXCEPT ![t] = "meta_dump"]
    /\ UNCHANGED <<regVars, dirVars, otherVars, nb_trace_mem_list, offset, lock, rc, count,
                   saves, acq, offAtLock, rdoff, log>>

\* trace_meta_save(): rc = rte_trace_metadata_dump(f)
MetaDump(t) ==
    /\ pc[t] = "meta_dump"
    /\ \E r \in {0} \cup DumpErrors :
          /\ rc' = [rc EXCEPT ![t] = r]
          /\ fs' = Fwrite(fs, MetaFileName(CStr(dir)),
                          IF r = 0 THEN MetaSize ELSE 0, <<t, META>>)
    /\ pc' = [pc EXCEPT ![t] = "meta_close"]
    /\ UNCHANGED <<regVars, dirVars, otherVars, nb_trace_mem_list, offset, lock, count,
                   saves, acq, offAtLock, rdoff, log>>

\* trace_meta_save(): fclose(f), and the return to rte_trace_save()
MetaClose(t) ==
    /\ pc[t] = "meta_close"
    /\ \E e \in {0} \cup CloseErrnos :
          /\ rc' = [rc EXCEPT ![t] = CloseRc(@, e)]
          /\ fs' = IF e = 0 THEN fs
                   ELSE Flost(fs, MetaFileName(CStr(dir)))
          /\ log' = [log EXCEPT ![t] =
                        Append(@, Entry(META, rc[t] = 0 /\ e = 0, 0))]
    /\ pc' = [pc EXCEPT ![t] = AfterMeta(rc'[t])]
    /\ UNCHANGED <<regVars, dirVars, otherVars, nb_trace_mem_list, offset, lock, count,
                   saves, acq, offAtLock, rdoff>>

\* mutant: no lock is taken around the loop
CanLock_Always == TRUE

\* rte_spinlock_lock() returns once the lock is free
CanLock == lock = 0

\* rte_spinlock_lock(&trace->lock); count = 0 and the first loop test
SpinLock(t) ==
    /\ pc[t] = "lock"
    /\ CanLock
    /\ lock' = t
    /\ acq' = [acq EXCEPT ![t] = TRUE]
    /\ offAtLock' = [offAtLock EXCEPT ![t] = offset]
    /\ count' = [count EXCEPT ![t] = 0]
    /\ pc' = [pc EXCEPT ![t] = LoopHead(0)]
    /\ UNCHANGED <<regVars, dirVars, otherVars, nb_trace_mem_list, offset, fs, rc, saves, rdoff,
                   log>>

\* mutant: a failed region returns at once, the lock still held
LoopStep_ReturnLocked(r, c) ==
    IF r # 0 THEN [pc |-> "ret", count |-> c]
    ELSE [pc |-> LoopHead(c + 1), count |-> c + 1]

\* mutant: no break on a failed region
LoopStep_NoBreak(r, c) == [pc |-> LoopHead(c + 1), count |-> c + 1]

\* rc = trace_mem_save(trace, header, count); if (rc) break; else count++
\* and the loop test
LoopStep(r, c) == IF r # 0 THEN [pc |-> "unlock", count |-> c]
                  ELSE [pc |-> LoopHead(c + 1), count |-> c + 1]

\* trace_mem_save(): f = fopen(file_name, "w") fails; return -errno
MemOpenFail(t) ==
    /\ pc[t] = "mem_open"
    /\ \E e \in OpenErrnos : rc' = [rc EXCEPT ![t] = -e]
    /\ log' = [log EXCEPT ![t] = Append(@, Entry(count[t], FALSE, 0))]
    /\ pc' = [pc EXCEPT ![t] = LoopStep(rc'[t], count[t]).pc]
    /\ count' = [count EXCEPT ![t] = LoopStep(rc'[t], count[t]).count]
    /\ UNCHANGED <<regVars, dirVars, otherVars, nb_trace_mem_list, offset, lock, fs,
                   saves, acq, offAtLock, rdoff>>

\* trace_mem_save(): f = fopen(file_name, "w")
MemOpen(t) ==
    /\ pc[t] = "mem_open"
    /\ fs' = Fopen(fs, MemFileName(CStr(dir), count[t]))
    /\ pc' = [pc EXCEPT ![t] = "mem_write"]
    /\ UNCHANGED <<regVars, dirVars, otherVars, nb_trace_mem_list, offset, lock, rc, count,
                   saves, acq, offAtLock, rdoff, log>>

\* trace_mem_save(): rc = fwrite(&hdr->stream_header, trace_file_sz(hdr), 1, f);
\* rc = (rc == 1) ? 0 : -EACCES
MemWrite(t) ==
    /\ pc[t] = "mem_write"
    /\ LET sz == trace_file_sz(offset[count[t]])
           name == MemFileName(CStr(dir), count[t])
       IN \E n \in {sz} \cup ShortLens(sz) :
             /\ fs' = Fwrite(fs, name, n, <<t, count[t]>>)
             /\ rc' = [rc EXCEPT ![t] = IF n = sz THEN 0 ELSE -EACCES]
    /\ rdoff' = [rdoff EXCEPT ![t] = offset[count[t]]]
    /\ pc' = [pc EXCEPT ![t] = "mem_close"]
    /\ UNCHANGED <<regVars, dirVars, otherVars, nb_trace_mem_list, offset, lock, count,
                   saves, acq, offAtLock, log>>

\* trace_mem_save(): fclose(f), and the return to the loop
MemClose(t) ==
    /\ pc[t] = "mem_close"
    /\ \E e \in {0} \cup CloseErrnos :
          /\ rc' = [rc EXCEPT ![t] = CloseRc(@, e)]
          /\ fs' = IF e = 0 THEN fs
                   ELSE Flost(fs, MemFileName(CStr(dir), count[t]))
          /\ log' = [log EXCEPT ![t] =
                        Append(@, Entry(count[t], rc[t] = 0 /\ e = 0,
                                        rdoff[t]))]
    /\ pc' = [pc EXCEPT ![t] = LoopStep(rc'[t], count[t]).pc]
    /\ count' = [count EXCEPT ![t] = LoopStep(rc'[t], count[t]).count]
    /\ UNCHANGED <<regVars, dirVars, otherVars, nb_trace_mem_list, offset, lock,
                   saves, acq, offAtLock, rdoff>>

\* rte_spinlock_unlock(&trace->lock)
SpinUnlock(t) ==
    /\ pc[t] = "unlock"
    /\ lock' = 0
    /\ pc' = [pc EXCEPT ![t] = "ret"]
    /\ UNCHANGED <<regVars, dirVars, otherVars, nb_trace_mem_list, offset, fs, rc, count,
                   saves, acq, offAtLock, rdoff, log>>

\* return rc
SaveReturn(t) ==
    /\ pc[t] = "ret"
    /\ pc' = [pc EXCEPT ![t] = "idle"]
    /\ UNCHANGED <<regVars, dirVars, otherVars, nb_trace_mem_list, offset, lock, fs, rc, count,
                   saves, acq, offAtLock, rdoff, log>>

\* a worker emits a record into its region: the write offset grows
WorkerAdvance(i) ==
    /\ i \in DOMAIN offset
    /\ offset[i] < MaxOffset
    /\ offset' = [offset EXCEPT ![i] = @ + 1]
    /\ UNCHANGED <<regVars, dirVars, otherVars, nb_trace_mem_list, lock, fs, pc, rc, count,
                   saves, acq, offAtLock, rdoff, log>>

\* a session directory string of length n
DirOfLen(n) == Rep("x", n) \o Rep(NUL, PATH_MAX - n)

\* lengths of the session directory: short enough for every file name, and
\* so long that "/channel0_<N>" no longer fits behind it
SaveDirLens == {PATH_MAX - 20, PATH_MAX - 6}

InitSave ==
    /\ RegIdle
    /\ OtherIdle
    /\ \E n \in SaveDirLens :
          /\ dir = DirOfLen(n)
          /\ dir_offset = n
          /\ dir_hi = n
          /\ dirs = {CStr(dir)}
    /\ errno = 0
    /\ dir_op = "mkdir"
    /\ dir_rc = 0
    /\ dir_ops = 1
    /\ heap_over = FALSE
    /\ dir_log = <<>>
    /\ nb_trace_mem_list \in 0..MaxRegions
    /\ offset = [i \in 0..(nb_trace_mem_list - 1) |-> 0]
    /\ lock = 0
    /\ fs = <<>>
    /\ pc = [t \in Threads |-> "idle"]
    /\ rc = [t \in Threads |-> 0]
    /\ count = [t \in Threads |-> 0]
    /\ saves = [t \in Threads |-> 0]
    /\ acq = [t \in Threads |-> FALSE]
    /\ offAtLock = [t \in Threads |-> offset]
    /\ rdoff = [t \in Threads |-> 0]
    /\ log = [t \in Threads |-> <<>>]

NextSave ==
    \/ \E t \in Threads : SaveEnter(t)
    \/ \E t \in Threads : MetaOpenFail(t)
    \/ \E t \in Threads : MetaOpen(t)
    \/ \E t \in Threads : MetaDump(t)
    \/ \E t \in Threads : MetaClose(t)
    \/ \E t \in Threads : SpinLock(t)
    \/ \E t \in Threads : MemOpenFail(t)
    \/ \E t \in Threads : MemOpen(t)
    \/ \E t \in Threads : MemWrite(t)
    \/ \E t \in Threads : MemClose(t)
    \/ \E t \in Threads : SpinUnlock(t)
    \/ \E t \in Threads : SaveReturn(t)
    \/ \E i \in 0..(MaxRegions - 1) : WorkerAdvance(i)

SpecSave == InitSave /\ [][NextSave]_vars

\* the next step of a rte_trace_save() call that thread t has started
CallStep(t) ==
    \/ MetaOpenFail(t)
    \/ MetaOpen(t)
    \/ MetaDump(t)
    \/ MetaClose(t)
    \/ SpinLock(t)
    \/ MemOpenFail(t)
    \/ MemOpen(t)
    \/ MemWrite(t)
    \/ MemClose(t)
    \/ SpinUnlock(t)
    \/ SaveReturn(t)

\* every file operation returns and every thread is scheduled again: a call
\* that can take a step takes one
SpecSaveFair == SpecSave /\ \A t \in Threads : WF_vars(CallStep(t))

----------------------------------------------------------------------------
(* Properties of rte_trace_save() *)

Regions == 0..(nb_trace_mem_list - 1)

\* the names the file-system layout gives the files of the session
MetadataPath == CStr(dir) \o Slash \o MetadataStr
ChannelPath(i) == CStr(dir) \o Slash \o ChannelStr \o Dec(i)

\* the name the call opens for a log entry
OpenedName(src) == IF src = META THEN MetaFileName(CStr(dir))
                   ELSE MemFileName(CStr(dir), src)

InMeta(t) == pc[t] \in {"meta_open", "meta_dump", "meta_close"}
InLoop(t) == pc[t] \in {"mem_open", "mem_write", "mem_close", "unlock"}
Returned(t) == pc[t] = "ret"

\* the log entries of thread t
Entries(t) == {log[t][k] : k \in 1..Len(log[t])}

\* the file that entry e of thread t wrote still holds what t wrote there
Holds(t, e) ==
    /\ e.src # META
    /\ e.ok
    /\ OpenedName(e.src) \in DOMAIN fs
    /\ fs[OpenedName(e.src)].wr = {<<t, e.src>>}

\* no region file holds content of two writers
NoInterleave ==
    \A i \in Regions :
        MemFileName(CStr(dir), i) \in DOMAIN fs
            => Cardinality(fs[MemFileName(CStr(dir), i)].wr) <= 1

\* C1 as stated: concurrent saves never interleave in a region file, and a
\* written region file is as long as the stream header plus the region's
\* write offset at the moment its writer took the session lock.
C1_LenAtLockAcquisition ==
    /\ NoInterleave
    /\ \A t \in Threads : \A e \in Entries(t) :
          Holds(t, e) =>
              fs[OpenedName(e.src)].len = STREAM_HDR_SZ + offAtLock[t][e.src]

\* C1 amended: concurrent saves never interleave in a region file, and a
\* written region file is as long as the stream header plus the region's
\* write offset as its writer read it at the fwrite(), which is at least
\* the offset when the writer took the lock and at most the offset now.
C1_LenAtWrite ==
    /\ NoInterleave
    /\ \A t \in Threads : \A e \in Entries(t) :
          Holds(t, e) =>
              /\ fs[OpenedName(e.src)].len = STREAM_HDR_SZ + e.off
              /\ offAtLock[t][e.src] <= e.off
              /\ e.off <= offset[e.src]

\* a worker advanced a region between a writer's lock acquisition and its
\* write, while another thread's save was under way
C1_Witness ==
    \E t \in Threads : \E u \in Threads \ {t} : \E e \in Entries(t) :
        /\ Holds(t, e)
        /\ e.off > offAtLock[t][e.src]
        /\ pc[u] = "lock"

\* C2: at most one thread is inside the region loop, the thread inside it
\* holds the lock, and no thread holds the lock outside it (not during the
\* metadata write either).
C2_LoopIsLocked ==
    /\ \A t \in Threads : \A u \in Threads \ {t} : ~(InLoop(t) /\ InLoop(u))
    /\ \A t \in Threads : InLoop(t) <=> lock = t

\* two threads are inside trace_meta_save() at once, a third party or one
\* of them apart, and the metadata file holds content of both
C2_Witness ==
    \E t \in Threads : \E u \in Threads \ {t} :
        /\ pc[t] = "meta_close"
        /\ pc[u] = "meta_close"
        /\ lock = 0
        /\ fs[MetaFileName(CStr(dir))].wr = {<<t, META>>, <<u, META>>}

\* C3: with no registered region, rte_trace_save() returns 0 and writes no
\* file, takes no lock and touches nothing.
C3_NoRegionNoSave ==
    nb_trace_mem_list = 0 =>
        /\ DOMAIN fs = {}
        /\ lock = 0
        /\ \A t \in Threads :
              /\ rc[t] = 0
              /\ ~acq[t]
              /\ log[t] = <<>>
              /\ pc[t] \in {"idle", "ret"}

C3_Witness ==
    /\ nb_trace_mem_list = 0
    /\ \E t \in Threads : Returned(t) /\ saves[t] > 0

\* the metadata step of the call of t failed
MetaFailed(t) == \E e \in Entries(t) : e.src = META /\ ~e.ok

\* the error returns of trace_meta_save()
MetaErrors == {-e : e \in OpenErrnos} \cup DumpErrors
                  \cup {-e : e \in CloseErrnos}

\* C4: a call whose metadata step failed returns that error, opens no
\* region file and never takes the lock.
C4_MetaFailureAborts ==
    \A t \in Threads :
        MetaFailed(t) =>
            /\ pc[t] \in {"ret", "idle"}
            /\ rc[t] \in MetaErrors
            /\ ~acq[t]
            /\ lock # t
            /\ \A e \in Entries(t) : e.src = META

C4_Witness ==
    \E t \in Threads :
        /\ Returned(t)
        /\ MetaFailed(t)
        /\ MetaFileName(CStr(dir)) \in DOMAIN fs

\* region i of the call of t failed
RegionFailed(t, i) == \E e \in Entries(t) : e.src = i /\ ~e.ok

\* the error returns of trace_mem_save()
MemErrors == {-e : e \in OpenErrnos} \cup {-EACCES}
                 \cup {-e : e \in CloseErrnos}

C5_State ==
    \A t \in Threads : \A i \in Regions :
        RegionFailed(t, i) =>
            /\ pc[t] \in {"unlock", "ret", "idle"}
            /\ rc[t] \in MemErrors
            /\ \A e \in Entries(t) : e.src <= i
            /\ log[t][Len(log[t])].src = i
            /\ pc[t] \in {"ret", "idle"} => lock # t

C5_Step ==
    \A t \in Threads : \A i \in Regions :
        (RegionFailed(t, i) /\ pc'[t] # pc[t]) => fs' = fs

\* C5: after region i failed, the call opens no later region, its steps
\* leave every file as it is, it returns the error of region i and does
\* not hold the lock when it returns.
C5_RegionFailureStops == []C5_State /\ [][C5_Step]_vars

\* region 1 failed after region 0 was written
C5_Witness ==
    \E t \in Threads :
        /\ Returned(t)
        /\ RegionFailed(t, 1)
        /\ \E e \in Entries(t) : e.src = 0 /\ e.ok
        /\ fs[OpenedName(0)].len > 0

\* the files of the call of t, in order: metadata, then regions 0, 1, ...
InOrder(t) == \A k \in 1..Len(log[t]) : log[t][k].src = k - 2

\* the call of t went through the metadata and every region, all written
AllWritten(t) ==
    /\ Len(log[t]) = nb_trace_mem_list + 1
    /\ \A e \in Entries(t) : e.ok

\* C6 without the file names: metadata first, then the regions in
\* increasing order; success exactly when every step succeeded.
C6_OrderAndResult ==
    \A t \in Threads :
        /\ InOrder(t)
        /\ (Returned(t) /\ nb_trace_mem_list >= 1)
              => (rc[t] = 0 <=> AllWritten(t))

\* C6 as stated: as above, and the i-th region goes to channel0_<i>, so
\* that a successful call has written exactly metadata and
\* channel0_0 .. channel0_(n-1).
C6_OrderNamesAndResult ==
    /\ C6_OrderAndResult
    /\ \A t \in Threads :
          /\ \A e \in Entries(t) :
                OpenedName(e.src) = IF e.src = META THEN MetadataPath
                                    ELSE ChannelPath(e.src)
          /\ (Returned(t) /\ nb_trace_mem_list >= 1 /\ rc[t] = 0)
                => {OpenedName(e.src) : e \in Entries(t)}
                       = {MetadataPath} \cup {ChannelPath(i) : i \in Regions}

----------------------------------------------------------------------------
(* trace_has_duplicate_entry() *)

\* sizeof(tp->name), scaled down: a name has at most this many characters
\* less one
TRACE_POINT_NAME_SIZE == 3
\* registered trace points
MaxPoints == 3

NameChars == {"a", "A"}
Names == UNION {[1..k -> NameChars] : k \in 0..(TRACE_POINT_NAME_SIZE - 1)}
NameLists == UNION {[1..k -> Names] : k \in 0..MaxPoints}

\* strncmp(a, b, n): 0 when the strings agree in their first n characters
Strncmp(a, b, n) ==
    IF SubSeq(a, 1, Min(Len(a), n)) = SubSeq(b, 1, Min(Len(b), n))
    THEN 0 ELSE 1

\* mutant: the test is count >= 1
RECURSIVE EntryCompareLoop_Ge1(_, _, _, _)
EntryCompareLoop_Ge1(list, k, name, cnt) ==
    IF k > Len(list) THEN FALSE
    ELSE LET c == IF Strncmp(list[k], name, TRACE_POINT_NAME_SIZE) = 0
                  THEN cnt + 1 ELSE cnt
         IN IF c >= 1 THEN TRUE
            ELSE EntryCompareLoop_Ge1(list, k + 1, name, c)

\* the STAILQ_FOREACH of trace_entry_compare(), from the k-th trace point on
RECURSIVE EntryCompareLoop(_, _, _, _)
EntryCompareLoop(list, k, name, cnt) ==
    IF k > Len(list) THEN FALSE
    ELSE LET c == IF Strncmp(list[k], name, TRACE_POINT_NAME_SIZE) = 0
                  THEN cnt + 1 ELSE cnt
         IN IF c > 1 THEN TRUE
            ELSE EntryCompareLoop(list, k + 1, name, c)

trace_entry_compare(list, name) == EntryCompareLoop(list, 1, name, 0)

\* the STAILQ_FOREACH of trace_has_duplicate_entry(), from the k-th trace
\* point on: what is returned, and the name trace_entry_compare() reported
RECURSIVE HasDuplicateLoop(_, _)
HasDuplicateLoop(list, k) ==
    IF k > Len(list) THEN [ret |-> FALSE, name |-> <<>>]
    ELSE IF trace_entry_compare(list, list[k])
         THEN [ret |-> TRUE, name |-> list[k]]
         ELSE HasDuplicateLoop(list, k + 1)

trace_has_duplicate_entry(list) == HasDuplicateLoop(list, 1)

\* trace_has_duplicate_entry() is called
DupCheck ==
    /\ ~dup_called
    /\ dup_called' = TRUE
    /\ LET r == trace_has_duplicate_entry(tp_list)
       IN /\ dup_ret' = r.ret
          /\ dup_name' = r.name
          /\ rte_errno' = IF r.ret THEN EEXIST ELSE rte_errno
    /\ UNCHANGED <<tp_list, tp_runs, nb_trace_points, uuid, uuid_fresh,
                   dirVars, saveVars, otherVars>>

InitDup ==
    /\ tp_list \in NameLists
    /\ tp_runs = <<>>
    /\ nb_trace_points = Len(tp_list)
    /\ dup_called = FALSE
    /\ dup_ret = FALSE
    /\ dup_name = <<>>
    /\ rte_errno = 0
    /\ uuid = Rep(0, 16)
    /\ uuid_fresh = FALSE
    /\ DirIdle
    /\ SaveIdle
    /\ OtherIdle

NextDup == DupCheck

SpecDup == InitDup /\ [][NextDup]_vars

----------------------------------------------------------------------------
(* Properties of trace_has_duplicate_entry() *)

\* the names of the registry are pairwise different
AllUnique(list) ==
    \A i \in 1..Len(list) : \A j \in 1..Len(list) :
        i # j => list[i] # list[j]

\* how often a name is registered
Occurrences(list, name) == Cardinality({k \in 1..Len(list) : list[k] = name})

C7_State ==
    dup_called =>
        /\ AllUnique(tp_list) =>
              (~dup_ret /\ rte_errno = 0 /\ dup_name = <<>>)
        /\ ~AllUnique(tp_list) =>
              (dup_ret /\ rte_errno = EEXIST
                  /\ Occurrences(tp_list, dup_name) >= 2)

\* C7: trace_has_duplicate_entry() returns false for a registry of pairwise
\* different names; for a registry with a repeated name it returns true, sets
\* rte_errno to EEXIST and reports a name registered at least twice; it
\* never changes the registry.
C7_DuplicateDetection == []C7_State /\ [][tp_list' = tp_list]_vars

\* a duplicate was found behind names that differ only in case or length
C7_Witness ==
    /\ dup_called
    /\ dup_ret
    /\ Len(tp_list) = 3
    /\ tp_list[1] = <<"a">>
    /\ tp_list[2] = <<"A">>
    /\ tp_list[3] = <<"A">>
    /\ dup_name = <<"A">>

----------------------------------------------------------------------------
(* trace_uuid_generate() *)

(* A uint64_t is the sequence of its 8 bytes, lowest first: the sum of the
   sizes and the node constant do not fit the integers of the checker.  The
   registry is a sequence of runs [handle, n], a run standing for n
   consecutive trace points with that handle; the loop adds the size of a
   run's handle n times. *)

U64Zero == Rep(0, 8)

\* x + v * 256^(pos - 1), modulo 2^64
RECURSIVE U64AddAt(_, _, _)
U64AddAt(x, pos, v) ==
    IF pos > 8 \/ v = 0 THEN x
    ELSE LET sum == x[pos] + v
         IN U64AddAt([x EXCEPT ![pos] = sum % 256], pos + 1, sum \div 256)

\* byte k of a number, byte 0 the lowest
Byte(n, k) == (n \div (256 ^ k)) % 256

\* runs in a registry
MaxRuns == 3

\* handles: the size in bits in the low 16 bits, flags and identifiers above
H8 == <<8, 0, 0, 0, 0, 0, 0, 0>>
H8b == <<8, 0, 1, 0, 0, 0, 0, 0>>
H16 == <<16, 0, 2, 0, 0, 0, 0, 0>>
H32 == <<32, 0, 3, 0, 0, 0, 0, 128>>
HNoField == <<0, 0, 4, 0, 0, 0, 0, 0>>
HMaxSize == <<255, 255, 5, 0, 0, 0, 0, 0>>

\* 2^16 trace points in one run
ManyPoints == 256 * 256

RunSet ==
    {[handle |-> h, n |-> 1] : h \in {H8, H8b, H16, H32}}
        \cup {[handle |-> h, n |-> ManyPoints] : h \in {HNoField, HMaxSize}}

Registries == UNION {[1..k -> RunSet] : k \in 0..MaxRuns}

\* mutant: no mask, the whole handle is added
FieldSize_NoMask(handle) == handle

\* const uint16_t sz = *tp->handle & __RTE_TRACE_FIELD_SIZE_MASK
FieldSize(handle) == <<handle[1], handle[2], 0, 0, 0, 0, 0, 0>>

\* sz_total += sz, for each of the n trace points of a run
RECURSIVE AddRun(_, _, _, _)
AddRun(acc, sz, n, pos) ==
    IF pos > 8 THEN acc
    ELSE AddRun(U64AddAt(acc, pos, sz[pos] * n), sz, n, pos + 1)

\* the STAILQ_FOREACH of trace_uuid_generate(), from the k-th run on
RECURSIVE SzTotalLoop(_, _, _)
SzTotalLoop(runs, k, acc) ==
    IF k > Len(runs) THEN acc
    ELSE SzTotalLoop(runs, k + 1,
                     AddRun(acc, FieldSize(runs[k].handle), runs[k].n, 1))

\* the constants of the RTE_UUID_INIT() call: 0x4370, 0x8f50 and
\* 0x222ddd514176ULL
UUID_C == 17264
UUID_D == 36688
UUID_E == <<118, 65, 81, 221, 45, 34, 0, 0>>

\* RTE_UUID_INIT(a, b, c, d, e): the standard UUID byte layout, a in 4
\* bytes, b, c and d in 2 bytes each, e in 6 bytes, highest byte first
RTE_UUID_INIT(a, b, c, d, e) ==
    <<a[4], a[3], a[2], a[1],
      Byte(b, 1), Byte(b, 0),
      Byte(c, 1), Byte(c, 0),
      Byte(d, 1), Byte(d, 0),
      e[6], e[5], e[4], e[3], e[2], e[1]>>

\* mutant: the two size-derived arguments are the total size alone
trace_uuid_generate_NoCount(runs, nb) ==
    RTE_UUID_INIT(SzTotalLoop(runs, 1, U64Zero), 0, UUID_C, UUID_D, UUID_E)

\* the UUID trace_uuid_generate() stores for a registry of nb trace points
trace_uuid_generate(runs, nb) ==
    RTE_UUID_INIT(SzTotalLoop(runs, 1, U64Zero), nb, UUID_C, UUID_D, UUID_E)

\* trace_uuid_generate() is called
UuidGenerate ==
    /\ uuid' = trace_uuid_generate(tp_runs, nb_trace_points)
    /\ uuid_fresh' = TRUE
    /\ UNCHANGED <<tp_list, tp_runs, nb_trace_points, dup_called, dup_ret,
                   dup_name, rte_errno, dirVars, saveVars, otherVars>>

\* trace points are registered: the registry grows by a run
RegisterPoints(r) ==
    /\ Len(tp_runs) < MaxRuns
    /\ tp_runs' = Append(tp_runs, r)
    /\ nb_trace_points' = nb_trace_points + r.n
    /\ uuid_fresh' = FALSE
    /\ UNCHANGED <<tp_list, dup_called, dup_ret, dup_name, rte_errno, uuid,
                   dirVars, saveVars, otherVars>>

InitUuid == RegIdle /\ DirIdle /\ SaveIdle /\ OtherIdle

NextUuid ==
    \/ UuidGenerate
    \/ \E r \in RunSet : RegisterPoints(r)

SpecUuid == InitUuid /\ [][NextUuid]_vars

----------------------------------------------------------------------------
(* Properties of trace_uuid_generate() *)

\* handle AND size mask
MaskedSize(handle) == <<handle[1], handle[2], 0, 0, 0, 0, 0, 0>>

\* the sum over all trace points of (handle AND size mask), in 64 bits
RECURSIVE TotalSize(_)
TotalSize(runs) ==
    IF runs = <<>> THEN U64Zero
    ELSE LET r == runs[Len(runs)]
             m == MaskedSize(r.handle)
         IN U64AddAt(U64AddAt(TotalSize(SubSeq(runs, 1, Len(runs) - 1)),
                              1, m[1] * r.n),
                     2, m[2] * r.n)

\* the number of trace points
RECURSIVE PointCount(_)
PointCount(runs) ==
    IF runs = <<>> THEN 0
    ELSE PointCount(SubSeq(runs, 1, Len(runs) - 1)) + runs[Len(runs)].n

\* (total_size, point_count) of a registry
Key(runs) == <<TotalSize(runs), PointCount(runs)>>

\* what the UUID keeps of it: the low 32 bits of the total size and the low
\* 16 bits of the point count
KeptKey(runs) ==
    <<SubSeq(TotalSize(runs), 1, 4), PointCount(runs) % 65536>>

UuidOf(runs) == trace_uuid_generate(runs, PointCount(runs))

\* C8 as stated: registries with the same (total_size, point_count) have
\* the same UUID, and registries that differ in either have different
\* UUIDs.
C8_UuidDecidedByKey ==
    uuid_fresh =>
        \A r \in Registries :
            /\ Key(r) = Key(tp_runs) => UuidOf(r) = uuid
            /\ Key(r) # Key(tp_runs) => UuidOf(r) # uuid

\* C8 amended: registries with the same (total_size, point_count) have the
\* same UUID, and registries that differ in the low 32 bits of the total
\* size or in the low 16 bits of the point count have different UUIDs.
C8_UuidDecidedByKeptKey ==
    uuid_fresh =>
        \A r \in Registries :
            /\ Key(r) = Key(tp_runs) => UuidOf(r) = uuid
            /\ KeptKey(r) = KeptKey(tp_runs) => UuidOf(r) = uuid
            /\ KeptKey(r) # KeptKey(tp_runs) => UuidOf(r) # uuid

\* two registries of different handles with the same total size and count,
\* and a registry of another count with the same UUID
C8_Witness ==
    /\ uuid_fresh
    /\ tp_runs = <<[handle |-> H8, n |-> 1], [handle |-> H16, n |-> 1]>>
    /\ UuidOf(<<[handle |-> H16, n |-> 1], [handle |-> H8b, n |-> 1]>>) = uuid
    /\ UuidOf(<<[handle |-> H8, n |-> 1], [handle |-> H16, n |-> 1],
                [handle |-> HNoField, n |-> ManyPoints]>>) = uuid

\* the size-derived fields of a UUID, as numbers: bytes 0..3 and bytes 4..5
FieldA(u) == <<u[4], u[3], u[2], u[1], 0, 0, 0, 0>>
FieldB(u) == u[5] * 256 + u[6]

\* the fixed fields of the UUID
FixedFields(u) ==
    SubSeq(u, 7, 16) = <<67, 112, 143, 80, 34, 45, 221, 81, 65, 118>>

ThreePoints ==
    <<[handle |-> H8, n |-> 1], [handle |-> H16, n |-> 1],
      [handle |-> H32, n |-> 1]>>

\* C9 as stated: the stored UUID holds exactly the total size and the point
\* count next to the fixed constants; sizes 8, 16 and 32 give (56, 3).
C9_FieldsAreKey ==
    uuid_fresh =>
        /\ FieldA(uuid) = TotalSize(tp_runs)
        /\ FieldB(uuid) = PointCount(tp_runs)
        /\ FixedFields(uuid)
        /\ tp_runs = ThreePoints =>
              (SubSeq(uuid, 1, 4) = <<0, 0, 0, 56>>
                  /\ SubSeq(uuid, 5, 6) = <<0, 3>>)

\* C9 amended: the stored UUID holds the total size modulo 2^32 and the
\* point count modulo 2^16 next to the fixed constants; sizes 8, 16 and 32
\* give (56, 3).
C9_FieldsAreKeptKey ==
    uuid_fresh =>
        /\ SubSeq(FieldA(uuid), 1, 4) = SubSeq(TotalSize(tp_runs), 1, 4)
        /\ FieldB(uuid) = PointCount(tp_runs) % 65536
        /\ FixedFields(uuid)
        /\ tp_runs = ThreePoints =>
              (SubSeq(uuid, 1, 4) = <<0, 0, 0, 56>>
                  /\ SubSeq(uuid, 5, 6) = <<0, 3>>)

C9_Witness ==
    /\ uuid_fresh
    /\ tp_runs = ThreePoints
    /\ nb_trace_points = 3
    /\ uuid = <<0, 0, 0, 56, 0, 3, 67, 112, 143, 80, 34, 45, 221, 81, 65, 118>>

----------------------------------------------------------------------------
(* Building the session directory: eal_trace_dir_args_save(), trace_mkdir() *)

E2BIG == 7
ENOMEM == 12
EINVAL == 22
ENAMETOOLONG == 36

\* directory operations called in one run
MaxDirOps == 3

\* max length of the file prefix in a session name, plus one
TRACE_PREFIX_LEN == 12

\* what strftime() makes of "%Y-%m-%d-%p-%I-%M-%S"
Timestamp == <<"2", "0", "2", "0", "-", "0", "4", "-", "0", "1", "-",
               "A", "M", "-", "1", "1", "-", "5", "9", "-", "5", "9">>

\* sizeof("YYYY-mm-dd-AM-HH-MM-SS") + TRACE_PREFIX_LEN
TRACE_DIR_STR_LEN == Len(Timestamp) + 1 + TRACE_PREFIX_LEN

DpdkTracesStr == <<"/", "d", "p", "d", "k", "-", "t", "r", "a", "c", "e",
                   "s", "/">>

\* mutant: the bytes are stored from the start of the buffer
StoreAt_FromStart(buf, off, bytes) ==
    [i \in 1..Len(buf) |-> IF i <= Len(bytes) THEN bytes[i] ELSE buf[i]]

\* a buffer after `bytes` were stored from C index `off` on; what falls
\* behind the end of the buffer is not part of it
StoreAt(buf, off, bytes) ==
    [i \in 1..Len(buf) |->
        IF i - 1 >= off /\ i - 1 < off + Len(bytes)
        THEN bytes[i - off] ELSE buf[i]]

\* rte_strscpy(dst, src, dsize): the bytes stored from dst[0] on, and the
\* result: the length copied, or -E2BIG with the copy cut and terminated
rte_strscpy(src, dsize) ==
    IF Len(src) < dsize
    THEN [rc |-> Len(src), out |-> src \o <<NUL>>]
    ELSE [rc |-> -E2BIG,
          out |-> IF dsize = 0 THEN <<>>
                  ELSE SubSeq(src, 1, dsize - 1) \o <<NUL>>]

\* the state the directory operations work on
DirState ==
    [dir |-> dir, off |-> dir_offset, hi |-> dir_hi, errno |-> errno,
     rte_errno |-> rte_errno, dirs |-> dirs, heap |-> heap_over,
     log |-> <<>>]

\* the record of one call: what was called with which argument in which
\* environment, what it returned, and the directory buffer before (st0) and
\* after it (st1)
Call(call, arg, env, ret, st0, st1) ==
    [call |-> call, arg |-> arg, env |-> env, rc |-> ret,
     errno |-> st1.errno, dir0 |-> st0.dir, off0 |-> st0.off,
     dir1 |-> st1.dir, off1 |-> st1.off]

Logged(st0, st1, call, arg, env, ret) ==
    [st1 EXCEPT !.log = Append(@, Call(call, arg, env, ret, st0, st1))]

\* mutant: the capacity of the whole buffer
Remaining_NoOffset(size, off) == size

\* remaining = sizeof(trace->dir) - trace->dir_offset
Remaining(size, off) == size - off

\* trace_dir_update(str)
trace_dir_update(st, str) ==
    LET remaining == Remaining(Len(st.dir), st.off)
        r == rte_strscpy(str, remaining)
        st1 == [st EXCEPT
                  !.dir = StoreAt(@, st.off, r.out),
                  !.off = IF r.rc < 0 THEN @ ELSE @ + r.rc,
                  !.hi = Max(@, st.off + Len(r.out) - 1),
                  !.rte_errno = IF r.rc < 0 THEN E2BIG ELSE @]
    IN [rc |-> r.rc, st |-> Logged(st, st1, "update", str, <<>>, r.rc)]

\* an optional string: a null pointer, or the string s
Null == [null |-> TRUE, s |-> <<>>]
Str(s) == [null |-> FALSE, s |-> s]

\* eal_trace_dir_args_save(optarg): its possible outcomes [rc, st]
eal_trace_dir_args_save(st0, optarg) ==
    LET size == Len(st0.dir)
        st == Logged(st0, st0, "args", optarg.s, <<optarg.null>>, 0)
    IN IF optarg.null THEN {[rc |-> -EINVAL, st |-> st]}
       ELSE IF Len(optarg.s) >= size
       THEN {[rc |-> -ENAMETOOLONG, st |-> st]}
       ELSE {[rc |-> -ENOMEM, st |-> st]}
            \cup {LET dir_path == optarg.s \o Slash
                  IN trace_dir_update(
                         [st EXCEPT !.heap = @ \/ Len(dir_path) + 1 > size],
                         dir_path)}

\* trace_dir_default_path_get(dir_path), for the HOME variable and the
\* pw_dir of getpwuid(getuid())
trace_dir_default_path_get(size, home, pw) ==
    IF home.null /\ pw.null THEN [rc |-> -EINVAL, path |-> <<>>]
    ELSE LET home_dir == IF home.null THEN pw.s ELSE home.s
         IN [rc |-> 0, path |-> Snprintf(size, home_dir \o DpdkTracesStr)]

\* errno after a failed mkdir(), other than EEXIST
MkdirErrnos == {EACCES}

\* mkdir(path, 0700): possible outcomes [rc, st]
Mkdir(st, path) ==
    {[rc |-> -1,
      st |-> Logged(st, [st EXCEPT !.errno = e], "mkdir", path, <<>>, -1)] :
        e \in MkdirErrnos \cup {EEXIST}}
    \cup (IF path \notin st.dirs /\ path # <<>>
          THEN {[rc |-> 0,
                 st |-> Logged(st, [st EXCEPT !.dirs = @ \cup {path}],
                               "mkdir", path, <<>>, 0)]}
          ELSE {})

\* strftime(s, max, "%Y-%m-%d-%p-%I-%M-%S", tm): the length written, or 0
\* when the text and its terminator do not fit in max bytes
Strftime(max) == IF Len(Timestamp) + 1 <= max THEN Len(Timestamp) ELSE 0

\* the environment of trace_session_name_generate()
HomeSet == {Null, Str(<<"/", "h">>), Str(Rep("h", PATH_MAX))}
PwSet == {Null, Str(<<"/", "w">>)}
PrefixSet == {Rep("p", n) : n \in {3, TRACE_PREFIX_LEN - 1, TRACE_PREFIX_LEN}}
\* errno after a failed time() or localtime(); a time whose (int) value is -1
\* leaves errno as it was
TimeErrnos == {75}
\* errno left behind by earlier library calls
StaleErrnos == {0, 2}
\* what the uninitialised session array holds, and what follows it in memory
StackBytes == {Rep("?", TRACE_DIR_STR_LEN), Rep(NUL, TRACE_DIR_STR_LEN)}
StackTails == {<<NUL>>, Rep("?", PATH_MAX) \o <<NUL>>}

\* fail: rte_errno = errno; return -rte_errno
SessionFail(st, sb, prefix, at) ==
    [rc |-> -st.errno, sb |-> sb,
     st |-> Logged(st, [st EXCEPT !.rte_errno = st.errno],
                   "session", prefix, <<at>>, -st.errno)]

\* trace_session_name_generate(trace_dir): possible outcomes [rc, sb, st],
\* sb what the array trace_dir holds afterwards
trace_session_name_generate(st) ==
    UNION {
      {SessionFail([st EXCEPT !.errno = e], sb0, <<>>, "time") :
          e \in TimeErrnos}
      \cup {SessionFail(st, sb0, <<>>, "time")}
      \cup {LET r == rte_strscpy(prefix, TRACE_PREFIX_LEN)
                st1 == [st EXCEPT !.rte_errno =
                                      IF r.rc < 0 THEN E2BIG ELSE @]
                rc1 == IF r.rc = -E2BIG THEN TRACE_PREFIX_LEN ELSE r.rc
                sb1 == StoreAt(StoreAt(sb0, 0, r.out), rc1, <<"-">>)
                rc2 == rc1 + 1
                n == Strftime(TRACE_DIR_STR_LEN - rc2)
            IN IF n = 0 THEN SessionFail(st1, sb1, prefix, "strftime")
               ELSE [rc |-> n,
                     sb |-> StoreAt(sb1, rc2, Timestamp \o <<NUL>>),
                     st |-> Logged(st1, st1, "session", prefix, <<"ok">>, n)]
            : prefix \in PrefixSet}
      : sb0 \in StackBytes}

\* mutant: every failure of the base creation is an error
BaseFailed_Any(m) == m.rc < 0

\* if (rc < 0 && errno != EEXIST), after the mkdir() of the base
BaseFailed(m) == m.rc < 0 /\ m.st.errno # EEXIST

\* trace_mkdir(), from rc = mkdir(trace->dir, 0700) for the base on
MkdirFrom(st) ==
    UNION {
      IF BaseFailed(m1)
      THEN {[rc |-> -m1.st.errno,
             st |-> [m1.st EXCEPT !.rte_errno = m1.st.errno]]}
      ELSE UNION {
        IF g.rc < 0 THEN {[rc |-> g.rc, st |-> g.st]}
        ELSE UNION {
          LET u == trace_dir_update(g.st, CStr(g.sb \o tail))
          IN IF u.rc < 0 THEN {u}
             ELSE {IF m2.rc < 0
                   THEN [rc |-> -m2.st.errno,
                         st |-> [m2.st EXCEPT !.rte_errno = m2.st.errno]]
                   ELSE [rc |-> 0, st |-> m2.st]
                   : m2 \in Mkdir(u.st, CStr(u.st.dir))}
          : tail \in StackTails}
        : g \in trace_session_name_generate(m1.st)}
      : m1 \in Mkdir(st, CStr(st.dir))}

\* trace_mkdir(): possible outcomes [rc, st]
trace_mkdir(st) ==
    IF st.off = 0
    THEN {[rc |-> -ENOMEM, st |-> st]}
         \cup UNION {
           LET p == trace_dir_default_path_get(Len(st.dir), home, pw)
               d == Logged(st, st, "default", p.path, <<home, pw>>, p.rc)
           IN IF p.rc < 0 THEN {[rc |-> p.rc, st |-> d]}
              ELSE LET u == trace_dir_update(d, p.path)
                   IN IF u.rc < 0 THEN {u} ELSE MkdirFrom(u.st)
           : home \in HomeSet, pw \in PwSet}
    ELSE MkdirFrom(st)

\* the outcome o of operation op becomes the state
DirApply(op, o) ==
    /\ dir' = o.st.dir
    /\ dir_offset' = o.st.off
    /\ dir_hi' = o.st.hi
    /\ errno' = o.st.errno
    /\ rte_errno' = o.st.rte_errno
    /\ dirs' = o.st.dirs
    /\ heap_over' = o.st.heap
    /\ dir_log' = o.st.log
    /\ dir_op' = op
    /\ dir_rc' = o.rc
    /\ dir_ops' = dir_ops + 1
    /\ UNCHANGED <<tp_list, tp_runs, nb_trace_points, dup_called, dup_ret,
                   dup_name, uuid, uuid_fresh, saveVars, otherVars>>

\* lengths of the --trace-dir argument
ArgLens == {0, 1, PATH_MAX - 30, PATH_MAX - 2, PATH_MAX - 1, PATH_MAX,
            PATH_MAX + 1}
ArgSet == {Null} \cup {Str(Rep("u", n)) : n \in ArgLens}

\* eal_trace_dir_args_save(optarg) is called
DirArgsSave(optarg) ==
    /\ dir_ops < MaxDirOps
    /\ \E o \in eal_trace_dir_args_save(DirState, optarg) :
          DirApply("args", o)

\* trace_mkdir() is called
TraceMkdir ==
    /\ dir_ops < MaxDirOps
    /\ \E o \in trace_mkdir(DirState) : DirApply("mkdir", o)

InitDir ==
    /\ RegIdle
    /\ SaveIdle
    /\ OtherIdle
    /\ dir = Rep(NUL, PATH_MAX)
    /\ dir_offset = 0
    /\ errno \in StaleErrnos
    /\ dirs = {}
    /\ dir_op = "none"
    /\ dir_rc = 0
    /\ dir_ops = 0
    /\ dir_hi = 0 - 1
    /\ heap_over = FALSE
    /\ dir_log = <<>>

NextDir ==
    \/ \E optarg \in ArgSet : DirArgsSave(optarg)
    \/ TraceMkdir

SpecDir == InitDir /\ [][NextDir]_vars

----------------------------------------------------------------------------
(* Properties of the directory operations *)

C10_State ==
    /\ dir_offset >= 0
    /\ dir_offset < PATH_MAX
    /\ dir_hi < PATH_MAX
    /\ Len(dir) = PATH_MAX

\* C10: the directory operations never write at or behind the capacity of
\* trace->dir, dir_offset stays below the capacity, and dir_offset never
\* decreases.
C10_DirWithinCapacity == []C10_State /\ [][dir_offset' >= dir_offset]_vars

\* the buffer is full to its last byte and a further append was refused
C10_Witness ==
    /\ dir_offset = PATH_MAX - 1
    /\ dir_hi = PATH_MAX - 1
    /\ dir_rc = -E2BIG
    /\ dir_ops >= 2

\* the calls of one kind the last directory operation made, in order
CallsTo(call) == SelectSeq(dir_log, LAMBDA c : c.call = call)
UpdateCalls == {dir_log[i] : i \in {j \in DOMAIN dir_log :
                                        dir_log[j].call = "update"}}
TooLong(c) == Len(c.arg) >= PATH_MAX - c.off0

\* C11: a trace_dir_update(str) whose string does not fit in the remaining
\* capacity fails with -E2BIG, leaves dir_offset unchanged and leaves every
\* byte of the directory buffer as it was.
C11_FailedUpdateLeavesBuffer ==
    \A c \in UpdateCalls :
        TooLong(c) => /\ c.rc = -E2BIG
                      /\ c.off1 = c.off0
                      /\ c.dir1 = c.dir0

\* what the code keeps of it: the error, the offset, and the bytes in front
\* of the offset
C11_FailedUpdateKeepsOffset ==
    \A c \in UpdateCalls :
        TooLong(c) => /\ c.rc = -E2BIG
                      /\ c.off1 = c.off0
                      /\ SubSeq(c.dir1, 1, c.off0) = SubSeq(c.dir0, 1, c.off0)

\* C12: in trace_mkdir(), an already existing base directory is no error and
\* the call goes on to the session directory; any other failure of the base
\* creation ends the call with the OS error; every failure of the creation
\* of the session directory, EEXIST included, ends the call with the OS error.
C12_BaseExistsSessionMustNot ==
    dir_op = "mkdir" =>
        LET mk == CallsTo("mkdir")
            last == dir_log[Len(dir_log)]
        IN /\ Len(mk) <= 2
           /\ (Len(mk) >= 1 /\ mk[1].rc < 0 /\ mk[1].errno = EEXIST)
                 => Len(CallsTo("session")) = 1
           /\ (Len(mk) >= 1 /\ mk[1].rc < 0 /\ mk[1].errno # EEXIST)
                 => /\ dir_rc = -mk[1].errno
                    /\ dir_rc < 0
                    /\ Len(mk) = 1
                    /\ last = mk[1]
           /\ (Len(mk) >= 1 /\ Len(CallsTo("session")) = 1
                 /\ CallsTo("session")[1].rc >= 0
                 /\ \A c \in UpdateCalls : c.rc >= 0)
                 => Len(mk) = 2
           /\ Len(mk) = 2
                 => /\ last = mk[2]
                    /\ mk[2].rc < 0 => (dir_rc = -mk[2].errno /\ dir_rc < 0)
                    /\ mk[2].rc = 0 => dir_rc = 0

\* the base existed, and so did the session directory: the call failed
C12_Witness ==
    /\ dir_op = "mkdir"
    /\ Len(CallsTo("mkdir")) = 2
    /\ CallsTo("mkdir")[1].rc < 0
    /\ CallsTo("mkdir")[1].errno = EEXIST
    /\ CallsTo("mkdir")[2].rc < 0
    /\ CallsTo("mkdir")[2].errno = EEXIST
    /\ dir_rc = -EEXIST

----------------------------------------------------------------------------
(* The argument store: eal_trace_args_save(), eal_trace_args_free() *)

\* operations on the store in one run
MaxArgOps == 6

\* the --trace patterns saved
ArgPatterns == {<<"e", "a", "l">>, <<"l", "i", "b", ".", "*">>}

\* mutant: the store is full one entry later
ArgsFull_Gt(nb) == nb > TRACE_MAX_ARGS

\* if (nb_args >= TRACE_MAX_ARGS)
ArgsFull(nb) == nb >= TRACE_MAX_ARGS

\* trace_args = calloc(1, strlen(optarg) + 1);
\* memcpy(trace_args, optarg, strlen(optarg)): the new heap block
ArgBlock(optarg) ==
    [data |-> StoreAt(Rep(NUL, StrLen(optarg) + 1), 0,
                      SubSeq(optarg, 1, StrLen(optarg))),
     frees |-> 0]

\* eal_trace_args_save(optarg)
ArgsSave(optarg) ==
    /\ args_ops < MaxArgOps
    /\ args_ops' = args_ops + 1
    /\ args_op' = <<"save", optarg>>
    /\ \/ /\ ArgsFull(nb_args)
          /\ args_rc' = 0
          /\ UNCHANGED <<args, nb_args, heap>>
       \/ /\ ~ArgsFull(nb_args)
          /\ args_rc' = -ENOMEM
          /\ UNCHANGED <<args, nb_args, heap>>
       \/ /\ ~ArgsFull(nb_args)
          /\ heap' = Append(heap, ArgBlock(optarg))
          /\ args' = [i \in DOMAIN args |->
                         IF i = nb_args THEN Len(heap') ELSE args[i]]
          /\ nb_args' = (nb_args + 1) % 256
          /\ args_rc' = 0
    /\ UNCHANGED <<regVars, dirVars, saveVars, epochVars>>

\* free((void *)trace->args.args[i]): one more free() of the block
Free(h, b) == [h EXCEPT ![b].frees = @ + 1]

\* the for loop of eal_trace_args_free(), from slot i on, over the heap h and
\* the slots a
RECURSIVE ArgsFreeLoop(_, _, _)
ArgsFreeLoop(i, h, a) ==
    IF ~(i < nb_args) THEN [heap |-> h, args |-> a]
    ELSE IF a[i] # 0
    THEN ArgsFreeLoop(i + 1, Free(h, a[i]), [a EXCEPT ![i] = 0])
    ELSE ArgsFreeLoop(i + 1, h, a)

\* eal_trace_args_free()
ArgsFree ==
    /\ args_ops < MaxArgOps
    /\ args_ops' = args_ops + 1
    /\ args_op' = <<"free", <<>>>>
    /\ args_rc' = 0
    /\ LET r == ArgsFreeLoop(0, heap, args)
       IN /\ heap' = r.heap
          /\ args' = r.args
    /\ UNCHANGED nb_args
    /\ UNCHANGED <<regVars, dirVars, saveVars, epochVars>>

InitArgs == RegIdle /\ DirIdle /\ SaveIdle /\ OtherIdle

NextArgs ==
    \/ \E optarg \in ArgPatterns : ArgsSave(optarg \o <<NUL>>)
    \/ ArgsFree

SpecArgs == InitArgs /\ [][NextArgs]_vars

----------------------------------------------------------------------------
(* Properties of the argument store *)

SaveStep == args_ops' = args_ops + 1 /\ args_op'[1] = "save"
FreeStep == args_ops' = args_ops + 1 /\ args_op'[1] = "free"

\* the string a slot points to
Stored(a, h, i) == CStr(h[a[i]].data)

C13_Step ==
    SaveStep =>
        /\ nb_args = TRACE_MAX_ARGS
              => /\ args_rc' = 0
                 /\ UNCHANGED <<args, nb_args, heap>>
        /\ (nb_args < TRACE_MAX_ARGS /\ args_rc' = 0)
              => /\ nb_args' = nb_args + 1
                 /\ args'[nb_args] # 0
                 /\ args'[nb_args] \notin {args[i] : i \in DOMAIN args}
                 /\ Stored(args', heap', nb_args) = CStr(args_op'[2])
                 /\ heap'[args'[nb_args]].frees = 0
                 /\ \A i \in DOMAIN args : i # nb_args => args'[i] = args[i]
                 /\ SubSeq(heap', 1, Len(heap)) = heap

\* C13: the stored argument count never exceeds TRACE_MAX_ARGS; a save into
\* a full store returns 0 and changes neither the count nor any entry; a
\* save below the limit appends a copy of the pattern and adds one to the
\* count.
C13_StoreBounded == [](nb_args <= TRACE_MAX_ARGS) /\ [][C13_Step]_vars

\* the store is full and a further save was dropped with result 0
C13_Witness ==
    /\ nb_args = TRACE_MAX_ARGS
    /\ args_op[1] = "save"
    /\ args_rc = 0
    /\ Len(heap) = TRACE_MAX_ARGS
    /\ args_ops = TRACE_MAX_ARGS + 1
    /\ \A i \in DOMAIN args : args[i] # 0

NoDoubleFree == \A b \in DOMAIN heap : heap[b].frees <= 1
AllFreed == \A b \in DOMAIN heap : heap[b].frees = 1
NoEntries == \A i \in DOMAIN args : args[i] = 0

C14_Step ==
    FreeStep => /\ NoEntries'
                /\ AllFreed'
                /\ nb_args' = 0

\* C14: eal_trace_args_free() frees every stored entry and resets the count
\* to zero, so that the store is empty and takes TRACE_MAX_ARGS new patterns
\* again; a second call, or a call on an empty store, changes nothing more
\* and frees no entry twice.
C14_FreeEmptiesStore == []NoDoubleFree /\ [][C14_Step]_vars

\* what the code keeps of it: every entry is freed once and its slot set to
\* NULL, a repeated call changes nothing; the count stays as it was
C14_FreeKeepsCount ==
    /\ []NoDoubleFree
    /\ [][FreeStep => /\ NoEntries'
                      /\ AllFreed'
                      /\ nb_args' = nb_args
                      /\ (args_op[1] = "free" \/ args_ops = 0)
                            => UNCHANGED <<args, heap, nb_args>>]_vars

----------------------------------------------------------------------------
(* trace_epoch_time_save() *)

\* calls in one run
MaxEpochCalls == 2

\* uint64_t a + b
U64Add(a, b) == AddRun(a, b, 1, 1)

\* uint64_t x >> 1
U64Shr1(x) ==
    [i \in 1..8 |-> x[i] \div 2 + (IF i < 8 THEN (x[i + 1] % 2) * 128 ELSE 0)]

\* values of rte_get_tsc_cycles(): 0, 1, 2, 7, 2^32, 2^63 - 1, 2^63,
\* 2^63 + 3, 2^64 - 2, 2^64 - 1
TscValues ==
    {<<0, 0, 0, 0, 0, 0, 0, 0>>, <<1, 0, 0, 0, 0, 0, 0, 0>>,
     <<2, 0, 0, 0, 0, 0, 0, 0>>, <<7, 0, 0, 0, 0, 0, 0, 0>>,
     <<0, 0, 0, 0, 1, 0, 0, 0>>,
     <<255, 255, 255, 255, 255, 255, 255, 127>>,
     <<0, 0, 0, 0, 0, 0, 0, 128>>, <<3, 0, 0, 0, 0, 0, 0, 128>>,
     <<254, 255, 255, 255, 255, 255, 255, 255>>,
     <<255, 255, 255, 255, 255, 255, 255, 255>>}

\* a <= b as uint64_t, decided from byte i down
RECURSIVE U64LeFrom(_, _, _)
U64LeFrom(a, b, i) ==
    IF i = 0 THEN TRUE
    ELSE IF a[i] # b[i] THEN a[i] < b[i]
    ELSE U64LeFrom(a, b, i - 1)

U64Le(a, b) == U64LeFrom(a, b, 8)

\* what clock_gettime(CLOCK_REALTIME, &epoch) stores: tv_sec, tv_nsec
ClockValues == {<<1, 0>>, <<1588000000, 999999999>>}

\* trace_epoch_time_save()
EpochTimeSave ==
    /\ epoch_calls < MaxEpochCalls
    /\ epoch_calls' = epoch_calls + 1
    /\ \E start \in TscValues :
          \/ /\ epoch_rc' = 0 - 1
             /\ tsc' = <<start, U64Zero>>
             /\ UNCHANGED <<epoch_sec, epoch_nsec, uptime_ticks>>
          \/ \E end \in {e \in TscValues : U64Le(start, e)},
                epoch \in ClockValues :
                /\ tsc' = <<start, end>>
                /\ epoch_sec' = epoch[1]
                /\ epoch_nsec' = epoch[2]
                /\ uptime_ticks' = U64Shr1(U64Add(start, end))
                /\ epoch_rc' = 0
    /\ UNCHANGED <<regVars, dirVars, saveVars, argVars>>

InitEpoch == RegIdle /\ DirIdle /\ SaveIdle /\ OtherIdle

NextEpoch == EpochTimeSave

SpecEpoch == InitEpoch /\ [][NextEpoch]_vars

----------------------------------------------------------------------------
(* Properties of trace_epoch_time_save() *)

\* floor((a + b) / 2), computed without a sum of more than 64 bits
Midpoint(a, b) ==
    U64Add(U64Add(U64Shr1(a), U64Shr1(b)),
           <<(a[1] % 2) * (b[1] % 2), 0, 0, 0, 0, 0, 0, 0>>)

\* a + b needs more than 64 bits
SumOverflows(a, b) == ~U64Le(a, U64Add(a, b))

Succeeded == epoch_calls > 0 /\ epoch_rc = 0

\* C15: after a successful trace_epoch_time_save(), uptime_ticks is
\* floor((start + end) / 2) of the two counter reads and lies between them,
\* for every pair of 64-bit counter values with start <= end.
C15_UptimeIsMidpoint ==
    Succeeded => /\ uptime_ticks = Midpoint(tsc[1], tsc[2])
                 /\ U64Le(tsc[1], uptime_ticks)
                 /\ U64Le(uptime_ticks, tsc[2])

\* what the code keeps of it: the midpoint when start + end fits in 64 bits,
\* the midpoint less 2^63 when it does not
C15_UptimeIsMidpointIfSumFits ==
    Succeeded =>
        IF SumOverflows(tsc[1], tsc[2])
        THEN /\ U64Add(uptime_ticks, <<0, 0, 0, 0, 0, 0, 0, 128>>)
                    = Midpoint(tsc[1], tsc[2])
             /\ ~U64Le(tsc[1], uptime_ticks)
        ELSE /\ uptime_ticks = Midpoint(tsc[1], tsc[2])
             /\ U64Le(tsc[1], uptime_ticks)
             /\ U64Le(uptime_ticks, tsc[2])

----------------------------------------------------------------------------
(* The session name *)

\* the prefix cut to n characters, the separator, the timestamp
NameWith(prefix, n) ==
    SubSeq(prefix, 1, Min(Len(prefix), n)) \o <<"-">> \o Timestamp

\* the session names the prefix allows, the cut being at the longest prefix
\* rte_strscpy() keeps or at TRACE_PREFIX_LEN
SessionNames(prefix) ==
    {NameWith(prefix, TRACE_PREFIX_LEN - 1), NameWith(prefix, TRACE_PREFIX_LEN)}

\* the calls of trace_session_name_generate() that got a time
NamedAt ==
    {i \in DOMAIN dir_log : /\ dir_log[i].call = "session"
                            /\ dir_log[i].env # <<"time">>}

\* C16: for every file prefix the session name trace_mkdir() appends is the
\* prefix (cut to the maximum prefix length), then '-', then the complete
\* timestamp, also when the prefix was cut.
C16_SessionNameHasTimestamp ==
    \A i \in NamedAt :
        /\ dir_log[i].rc > 0
        /\ i + 1 \in DOMAIN dir_log
        /\ dir_log[i + 1].call = "update"
        /\ dir_log[i + 1].arg \in SessionNames(dir_log[i].arg)

\* what the code keeps of it: the name is as claimed for every prefix
\* shorter than TRACE_PREFIX_LEN; for a longer one the call fails with
\* -errno, or with errno = 0 goes on with the cut prefix alone
C16_SessionNameIfPrefixFits ==
    \A i \in NamedAt :
        IF Len(dir_log[i].arg) < TRACE_PREFIX_LEN
        THEN /\ dir_log[i].rc = Len(Timestamp)
             /\ dir_log[i + 1].call = "update"
             /\ dir_log[i + 1].arg = NameWith(dir_log[i].arg, TRACE_PREFIX_LEN)
        ELSE /\ dir_log[i].rc = -dir_log[i].errno
             /\ dir_log[i].rc = 0
                   => dir_log[i + 1].arg
                          = SubSeq(dir_log[i].arg, 1, TRACE_PREFIX_LEN - 1)

----------------------------------------------------------------------------
(* The session lock is released; the savers do not block each other *)

InCall(t) == pc[t] \notin {"idle", "ret"}

C17_State ==
    /\ (\A t \in Threads : ~InLoop(t)) => lock = 0
    /\ \A t \in Threads : Returned(t) => lock # t

\* C17: a rte_trace_save() call that took the session lock has released it
\* when it returns, on success and on every failure, so the lock is free
\* whenever no thread is inside the region loop; and under fair scheduling
\* every call that was started returns.
C17_LockReleasedAndReturns ==
    /\ []C17_State
    /\ \A t \in Threads : InCall(t) ~> Returned(t)

\* two calls have taken the lock one after the other and returned, one of
\* them with the error of a region
C17_Witness ==
    \E t \in Threads : \E u \in Threads \ {t} :
        /\ Returned(t) /\ acq[t] /\ rc[t] # 0
        /\ Returned(u) /\ acq[u] /\ rc[u] = 0
        /\ lock = 0

----------------------------------------------------------------------------
(* The session directory after trace_mkdir() has succeeded *)

EndsWith(str, tail) ==
    /\ Len(str) >= Len(tail)
    /\ SubSeq(str, Len(str) - Len(tail) + 1, Len(str)) = tail

\* the last operation was a trace_mkdir() that succeeded and appended a
\* session name with its timestamp
SessionMade ==
    /\ dir_op = "mkdir"
    /\ dir_rc = 0
    /\ Len(CallsTo("session")) = 1
    /\ CallsTo("session")[1].rc > 0
    /\ EndsWith(CStr(dir), Timestamp)

\* C18: once trace_mkdir() has succeeded and the directory carries its
\* session suffix, no later operation changes the directory string or
\* dir_offset.
C18_SessionDirImmutable ==
    [][SessionMade => (dir' = dir /\ dir_offset' = dir_offset)]_vars

\* C18, amended: a later operation only appends: dir_offset does not
\* decrease and the dir_offset bytes in front of it stay as they are, while
\* the string as a whole may grow by a further name.
C18_SessionDirOnlyGrows ==
    [][/\ dir_offset' >= dir_offset
       /\ SubSeq(dir', 1, dir_offset) = SubSeq(dir, 1, dir_offset)]_vars

\* a second trace_mkdir() succeeded on a directory that already carried a
\* session name: it found that directory existing, appended a second name
\* and created a directory of that name
C18_Witness ==
    /\ dir_op = "mkdir"
    /\ dir_rc = 0
    /\ Len(CallsTo("mkdir")) = 2
    /\ EndsWith(CallsTo("mkdir")[1].arg, Timestamp)
    /\ CallsTo("mkdir")[1].rc < 0
    /\ CallsTo("mkdir")[2].rc = 0
    /\ dir_offset = CallsTo("mkdir")[1].off0 + Len(CallsTo("update")[1].arg)
    /\ EndsWith(CStr(dir), Timestamp)
    /\ CStr(dir) \in dirs

----------------------------------------------------------------------------
(* The default base path *)

\* the home directory the environment gives: HOME, else the pw_dir
HomeOf(env) == IF env[1].null THEN env[2].s ELSE env[1].s

\* trace_mkdir() and the default path, the path expected being the whole
\* of <home>/dpdk-traces/ or, with cut, what fits in the path buffer
DefaultPathRules(cut) ==
    dir_op = "mkdir" =>
        LET d == CallsTo("default")
        IN /\ Len(d) <= 1
           /\ dir_log = <<>> => dir_rc = -ENOMEM
           /\ Len(d) = 1 =>
                 /\ d[1].off0 = 0
                 /\ dir_log[1] = d[1]
                 /\ (d[1].env[1].null /\ d[1].env[2].null)
                       => /\ d[1].rc < 0
                          /\ dir_rc = d[1].rc
                          /\ Len(dir_log) = 1
                          /\ dir = d[1].dir0
                          /\ dir_offset = 0
                 /\ ~(d[1].env[1].null /\ d[1].env[2].null)
                       => /\ d[1].rc = 0
                          /\ d[1].arg =
                                IF cut
                                THEN Snprintf(PATH_MAX,
                                              HomeOf(d[1].env) \o DpdkTracesStr)
                                ELSE HomeOf(d[1].env) \o DpdkTracesStr
                          /\ dir_log[2].call = "update"
                          /\ dir_log[2].arg = d[1].arg
           /\ (dir_log # <<>> /\ dir_log[1].off0 > 0)
                 => /\ Len(d) = 0
                    /\ dir_log[1].call = "mkdir"
                    /\ dir_log[1].arg = CStr(dir_log[1].dir0)
           /\ (dir_log # <<>> /\ dir_log[1].off0 = 0) => Len(d) = 1

\* C19: trace_mkdir() resolves a default base only when dir_offset is 0:
\* HOME when set, else the account entry's home directory, with
\* /dpdk-traces/ appended; with neither it fails, changes nothing and
\* creates no directory; a configured directory is the base as it is.
C19_DefaultPath == DefaultPathRules(FALSE)

\* what the code keeps of it: the default is <home>/dpdk-traces/ cut to what
\* fits in the path buffer
C19_DefaultPathCut == DefaultPathRules(TRUE)

----------------------------------------------------------------------------
(* The --trace-dir argument *)

\* eal_trace_dir_args_save(): rejections change nothing, a success appends
\* the argument and '/'
ArgsSaveRules ==
    dir_op = "args" =>
        LET a == dir_log[1]
            L == Len(a.arg)
        IN /\ a.call = "args"
           /\ a.env[1] => /\ dir_rc = -EINVAL
                          /\ dir = a.dir0
                          /\ dir_offset = a.off0
           /\ (~a.env[1] /\ L >= PATH_MAX)
                 => /\ dir_rc = -ENAMETOOLONG
                    /\ dir = a.dir0
                    /\ dir_offset = a.off0
           /\ dir_rc < 0 => dir_offset = a.off0
           /\ dir_rc >= 0
                 => /\ dir_rc = L + 1
                    /\ dir_offset = a.off0 + L + 1
                    /\ SubSeq(dir, a.off0 + 1, a.off0 + L + 2)
                           = a.arg \o Slash \o <<NUL>>
                    /\ SubSeq(dir, 1, a.off0) = SubSeq(a.dir0, 1, a.off0)

\* C20: for an argument of any length eal_trace_dir_args_save() writes
\* neither outside the temporary buffer it allocates nor outside
\* trace->dir; a missing or over-long argument is rejected with dir_offset
\* unchanged; a success appends the argument and '/' and advances
\* dir_offset by L + 1.
C20_ArgsSaveInBounds ==
    /\ ~heap_over
    /\ dir_hi < PATH_MAX
    /\ ArgsSaveRules

\* what the code keeps of it: the rules, and no write outside the temporary
\* buffer unless the argument has PATH_MAX - 1 characters
C20_ArgsSaveOverflowsAtLastLength ==
    /\ [](dir_hi < PATH_MAX /\ ArgsSaveRules)
    /\ [][(heap_over' /\ ~heap_over)
             <=> (dir_op' = "args" /\ dir_ops' = dir_ops + 1
                    /\ ~dir_log'[1].env[1]
                    /\ Len(dir_log'[1].arg) = PATH_MAX - 1
                    /\ Len(dir_log') = 2
                    /\ ~heap_over)]_vars

====
